---- MODULE Spec2Model ----
(***************************************************************************)
(* A model of the gossip-glomers node library (node/src/core.rs) and of    *)
(* the echo, uniqueids and broadcast binaries built on it.                  *)
(*                                                                          *)
(* Representation                                                           *)
(*   String / NodeId      a sequence of one-character strings               *)
(*   Option<T>            <<>> for None, <<x>> for Some(x)                  *)
(*   Vec<T>               a sequence                                        *)
(*   HashMap<K, V>        a function whose DOMAIN is the set of keys        *)
(*   u64 (unique ids)     the set of bit positions (0..63) that are set     *)
(*   Workload             a record whose field "type" is the serde tag      *)
(*   Result<Vec<Message>> a record [node, res, err, out, ids]: the node     *)
(*                        after the call, "Ok" / "Err" / "Panic", the       *)
(*                        error, the returned messages, and the msg ids     *)
(*                        gen_msg_id handed out during the call             *)
(***************************************************************************)
EXTENDS Integers, Sequences, FiniteSets, TLC

VARIABLES
    app,        \* which binary built the node: its create_node()
    node,       \* the Node struct
    last,       \* the latest process() call: the node before it, the inbound
                \* message, the result and the msg ids handed out during it
    issued,     \* every msg id gen_msg_id has returned, in order
    arrived,    \* the value of every Broadcast processed successfully, in order
    rejected,   \* the latest Echo the echo node refused with NotInitializedYet (Option)
    topo,       \* whether a Topology without a row for the node has been processed,
                \* and whether the latest Topology processed was one
    panicked,   \* the process has aborted (unwrap on a parse error)
    missed,     \* the pairs <<value, id>> such that the node accepted the value
                \* while id was not in its neighbor list
    calls,      \* number of gen_unique_id calls made (unique-id specification)
    kept,       \* an earlier gen_unique_id call, remembered (Option)
    cur,        \* the latest gen_unique_id call (Option)
    peer,       \* a second Node struct, of another process (two-node unique-id
                \* specification)
    peer_cur,   \* the latest gen_unique_id call of the second node (Option)
    nodes,      \* the Node struct of every process of the network (network
                \* specification), by node id
    net,        \* the messages written to stdout by a node of the network and not
                \* yet read by the node they are addressed to
    requests,   \* number of Broadcast requests the client has made of the network
    reads,      \* number of Read requests the client has made of the network
    forwards,   \* how many Broadcast messages each node of the network has sent,
                \* by <<sender, destination, value>>
    runner,     \* where Runner::start is (transport specification): "running" in
                \* its loop, "returned", or "aborted" by a panic
    stdin_eof,  \* stdin has reached end of input
    step,       \* the latest iteration of the loop of Runner::start: what
                \* read_line gave, what process gave, the messages written to
                \* stdout and whether a line went to stderr
    spins       \* iterations of the loop made since end of input

vars ==
    <<app, node, last, issued, arrived, rejected, topo, panicked, missed, calls, kept, cur,
      peer, peer_cur, nodes, net, requests, reads, forwards, runner, stdin_eof, step, spins>>

\* the variables of the transport specification
runnerVars == <<runner, stdin_eof, step, spins>>

-----------------------------------------------------------------------------
(* Bounds of the model *)

\* process() is not called once msg_counter has reached this value
MaxMsgId == 5

\* at most this many Broadcast messages are delivered to the node
MaxArrived == 3

\* gen_unique_id is called at most this many times in SpecUid
MaxCalls == 258

\* each of the two nodes of SpecUidPair calls gen_unique_id at most this many times
MaxPairCalls == 3

\* the client makes at most this many Broadcast requests of the network
MaxRequests == 1

\* the client makes at most this many Read requests of the network
MaxReads == 1

\* the loop of Runner::start is followed for at most this many iterations after
\* end of input
MaxSpins == 3

\* only the first KeepWindow gen_unique_id calls may be remembered in kept
KeepWindow == 2

-----------------------------------------------------------------------------
(* Option, String *)

None == <<>>

Some(x) == <<x>>

is_some(o) == o # None

unwrap_or(o, d) == IF o = None THEN d ELSE o[1]

EmptyString == <<>>

N1 == <<"n", "1">>
N2 == <<"n", "2">>
N3 == <<"n", "3">>
N257 == <<"n", "2", "5", "7">>
C1 == <<"c", "1">>

Hello == <<"H", "i">>

-----------------------------------------------------------------------------
(* Type and Workload::key *)

Type == {"Init", "Echo", "Generate", "Broadcast", "Read", "Topology", "Invalid"}

KeyNotFound == [kind |-> "KeyNotFound"]
NotInitializedYet == [kind |-> "NotInitializedYet"]
AlreadyInitialized == [kind |-> "AlreadyInitialized"]
HandlerNotFound(k) == [kind |-> "HandlerNotFound", key |-> k]
ExpectedMessage(f, e) == [kind |-> "ExpectedMessage", found |-> f, expected |-> e]
NoError == [kind |-> "None"]

\* Workload::key: Ok(Type) as <<t>>, Err(KeyNotFound) as <<>>
key(body) ==
    CASE body.type = "init" -> Some("Init")
      [] body.type = "echo" -> Some("Echo")
      [] body.type = "generate" -> Some("Generate")
      [] body.type = "broadcast" -> Some("Broadcast")
      [] body.type = "read" -> Some("Read")
      [] body.type = "topology" -> Some("Topology")
      [] OTHER -> None

\* Workload constructors
init_ok(in_reply_to) == [type |-> "init_ok", in_reply_to |-> in_reply_to]

echo_ok(in_reply_to, msg_id, echo) ==
    [type |-> "echo_ok", in_reply_to |-> in_reply_to, msg_id |-> msg_id, echo |-> echo]

generate_ok(in_reply_to, msg_id, id) ==
    [type |-> "generate_ok", in_reply_to |-> in_reply_to, msg_id |-> msg_id, id |-> id]

broadcast_ok(in_reply_to, msg_id) ==
    [type |-> "broadcast_ok", in_reply_to |-> in_reply_to, msg_id |-> msg_id]

read_ok(in_reply_to, msg_id, messages) ==
    [type |-> "read_ok", in_reply_to |-> in_reply_to, msg_id |-> msg_id,
     messages |-> messages]

topology_ok(in_reply_to, msg_id) ==
    [type |-> "topology_ok", in_reply_to |-> in_reply_to, msg_id |-> msg_id]

Broadcast(msg_id, message) ==
    [type |-> "broadcast", msg_id |-> msg_id, message |-> message]

-----------------------------------------------------------------------------
(* Results of handlers and of process *)

Ok(n, out, ids) == [node |-> n, res |-> "Ok", err |-> NoError, out |-> out, ids |-> ids]

Err(n, e, ids) == [node |-> n, res |-> "Err", err |-> e, out |-> <<>>, ids |-> ids]

Panic(n, ids) == [node |-> n, res |-> "Panic", err |-> NoError, out |-> <<>>, ids |-> ids]

-----------------------------------------------------------------------------
(* Node *)

\* Node::new: the application's handlers, plus handler_init unless the
\* application registered a handler for Init itself
NodeNew(handlers) ==
    [node_id |-> None,
     node_ids |-> None,
     handlers |-> IF "Init" \in DOMAIN handlers
                  THEN handlers
                  ELSE handlers @@ ("Init" :> "handler_init"),
     msg_counter |-> 0,
     uid_counter |-> 0,
     broadcast_messages |-> <<>>,
     neighbors |-> <<>>]

\* gen_msg_id returning the counter as it was before the increment
gen_msg_id_post_increment(n) ==
    [node |-> [n EXCEPT !.msg_counter = n.msg_counter + 1],
     id |-> n.msg_counter]

\* gen_msg_id returning the next id without storing it
gen_msg_id_not_stored(n) == [node |-> n, id |-> n.msg_counter + 1]

\* Node::gen_msg_id: the node after the call and the id returned
gen_msg_id(n) ==
    [node |-> [n EXCEPT !.msg_counter = n.msg_counter + 1],
     id |-> n.msg_counter + 1]

\* Node::node_id
node_id(n) == unwrap_or(n.node_id, EmptyString)

\* reply with source and destination exchanged
reply_from_dest(n, dest, body) == [src |-> dest, dest |-> node_id(n), body |-> body]

\* Node::reply
reply(n, dest, body) == [src |-> node_id(n), dest |-> dest, body |-> body]

\* Node::is_initialized
is_initialized(n) == is_some(n.node_id) /\ is_some(n.node_ids)

\* init without the removal of the Init handler
init_keeps_handler(n, id, ids) ==
    [n EXCEPT !.node_id = Some(id), !.node_ids = Some(ids)]

\* Node::init
init(n, id, ids) ==
    [n EXCEPT !.node_id = Some(id),
              !.node_ids = Some(ids),
              !.handlers = [k \in DOMAIN n.handlers \ {"Init"} |-> n.handlers[k]]]

\* handler_init building the reply before node.init()
handler_init_reply_first(n, m) ==
    IF m.body.type = "init"
    THEN LET r == reply(n, m.src, init_ok(m.body.msg_id))
         IN  Ok(init(n, m.body.node_id, m.body.node_ids), <<r>>, <<>>)
    ELSE Err(n, ExpectedMessage(unwrap_or(key(m.body), "Invalid"), "Init"), <<>>)

\* Node::handler_init
handler_init(n, m) ==
    IF m.body.type = "init"
    THEN LET n1 == init(n, m.body.node_id, m.body.node_ids)
         IN  Ok(n1, <<reply(n1, m.src, init_ok(m.body.msg_id))>>, <<>>)
    ELSE Err(n, ExpectedMessage(unwrap_or(key(m.body), "Invalid"), "Init"), <<>>)

\* push_broadcast_message that stores nothing
push_broadcast_message_forgets(n, message) == n

\* Node::push_broadcast_message
push_broadcast_message(n, message) ==
    [n EXCEPT !.broadcast_messages = Append(n.broadcast_messages, message)]

\* Node::broadcast_messages
broadcast_messages(n) == n.broadcast_messages

\* Node::neighbors
neighbors(n) == n.neighbors

\* Node::set_neighbors
set_neighbors(n, list) == [n EXCEPT !.neighbors = list]

-----------------------------------------------------------------------------
(* u64 arithmetic of gen_unique_id, on sets of bit positions *)

Bits64 == 0 .. 63

\* x << k on u64: bits shifted past bit 63 are dropped
Shl(x, k) == {i + k : i \in x} \cap Bits64

\* x >> k on u64
Shr(x, k) == {i - k : i \in {j \in x : j >= k}}

BitOr(x, y) == x \cup y

BitAnd(x, y) == x \cap y

\* the u64 holding a small natural number
U64OfNat(v) == {i \in 0 .. 30 : (v \div (2 ^ i)) % 2 = 1}

\* 0x000000000000FF00
node_id_mask == 8 .. 15

Digits == <<"0", "1", "2", "3", "4", "5", "6", "7", "8", "9">>

IsDigit(c) == \E i \in 1 .. 10 : Digits[i] = c

DigitVal(c) == (CHOOSE i \in 1 .. 10 : Digits[i] = c) - 1

RECURSIVE DigitsValue(_, _)
DigitsValue(s, acc) ==
    IF s = <<>> THEN acc ELSE DigitsValue(Tail(s), 10 * acc + DigitVal(Head(s)))

\* str::parse::<u64>: an optional "+" and at least one decimal digit, else Err
\* (None). Values too large for u64 do not occur among the identities used.
ParseU64(s) ==
    LET d == IF s # <<>> /\ Head(s) = "+" THEN Tail(s) ELSE s
    IN  IF d # <<>> /\ \A i \in 1 .. Len(d) : IsDigit(d[i])
        THEN Some(DigitsValue(d, 0))
        ELSE None

\* chars().skip(1).collect::<String>()
Skip1(s) == IF s = <<>> THEN <<>> ELSE Tail(s)

Bit(x, i) == IF i \in x THEN 1 ELSE 0

\* the number whose binary digits are bits i .. i + 7 of x
ByteAt(x, i) ==
    Bit(x, i) + 2 * Bit(x, i + 1) + 4 * Bit(x, i + 2) + 8 * Bit(x, i + 3)
    + 16 * Bit(x, i + 4) + 32 * Bit(x, i + 5) + 64 * Bit(x, i + 6) + 128 * Bit(x, i + 7)

\* decimal digits, least significant first, of 256 * ds + carry
RECURSIVE MulAdd(_, _)
MulAdd(ds, carry) ==
    IF ds = <<>>
    THEN IF carry = 0 THEN <<>> ELSE <<carry % 10>> \o MulAdd(<<>>, carry \div 10)
    ELSE LET t == 256 * Head(ds) + carry
         IN  <<t % 10>> \o MulAdd(Tail(ds), t \div 10)

\* decimal digits, least significant first, of the number whose binary digits
\* are bits i .. 63 of x (i a multiple of 8)
RECURSIVE Decimal(_, _)
Decimal(x, i) ==
    IF i > 63 THEN <<>>
    ELSE MulAdd(Decimal(x, i + 8), ByteAt(x, i))

\* u64::to_string
to_string(x) ==
    LET ds == Decimal(x, 0)
    IN  IF ds = <<>> THEN <<"0">>
        ELSE [i \in 1 .. Len(ds) |-> Digits[ds[Len(ds) + 1 - i] + 1]]

\* part1 of gen_unique_id
EpochPart(epoch) == Shr(Shl(epoch, 30), 7)

\* part2 without the shift: the mask applied to the parsed number itself
NodePart_unshifted(num) == BitAnd(U64OfNat(num), node_id_mask)

\* part2 of gen_unique_id
NodePart(num) == BitAnd(Shl(U64OfNat(num), 8), node_id_mask)

\* uid_counter += 1 on Wrapping<u8>
WrappingInc(c) == (c + 1) % 256

\* Node::gen_unique_id; epoch is what SystemTime::now() gives, in milliseconds
\* since the Unix epoch, as u64. ok = FALSE is the panic of unwrap() on a
\* parse error, which happens before the counter is touched.
gen_unique_id(n, epoch) ==
    LET part1 == EpochPart(epoch)
        parsed == ParseU64(Skip1(node_id(n)))
    IN  IF parsed = None
        THEN [node |-> n, ok |-> FALSE, id |-> EmptyString]
        ELSE LET part2 == NodePart(parsed[1])
                 c == WrappingInc(n.uid_counter)
                 part3 == U64OfNat(c)
                 unique_id == BitOr(BitOr(part1, part2), part3)
             IN  [node |-> [n EXCEPT !.uid_counter = c],
                  ok |-> TRUE,
                  id |-> to_string(unique_id)]

-----------------------------------------------------------------------------
(* echo/src/main.rs *)

\* handler_echo with in_reply_to and msg_id exchanged
handler_echo_swapped_ids(n, m) ==
    IF m.body.type = "echo"
    THEN LET g == gen_msg_id(n)
         IN  Ok(g.node,
                <<reply(g.node, m.src, echo_ok(g.id, m.body.msg_id, m.body.echo))>>,
                <<g.id>>)
    ELSE Err(n, ExpectedMessage(unwrap_or(key(m.body), "Invalid"), "Echo"), <<>>)

\* handler_echo returns one Message; it is the one-element list here
handler_echo(n, m) ==
    IF m.body.type = "echo"
    THEN LET g == gen_msg_id(n)
         IN  Ok(g.node,
                <<reply(g.node, m.src, echo_ok(m.body.msg_id, g.id, m.body.echo))>>,
                <<g.id>>)
    ELSE Err(n, ExpectedMessage(unwrap_or(key(m.body), "Invalid"), "Echo"), <<>>)

echo_create_node == NodeNew("Echo" :> "handler_echo")

-----------------------------------------------------------------------------
(* uniqueids/src/main.rs *)

\* the arguments of generate_ok are evaluated left to right: gen_msg_id first
handler_generate(n, m, now) ==
    IF m.body.type = "generate"
    THEN LET g == gen_msg_id(n)
             u == gen_unique_id(g.node, now)
         IN  IF u.ok
             THEN Ok(u.node,
                     <<reply(u.node, m.src, generate_ok(m.body.msg_id, g.id, u.id))>>,
                     <<g.id>>)
             ELSE Panic(u.node, <<g.id>>)
    ELSE Err(n, ExpectedMessage(unwrap_or(key(m.body), "Invalid"), "Generate"), <<>>)

uniqueids_create_node == NodeNew("Generate" :> "handler_generate")

-----------------------------------------------------------------------------
(* broadcast/src/main.rs *)

\* the loop of broadcast_message over the neighbors that remain
RECURSIVE fan_out(_, _, _, _)

\* the loop that stops after the first neighbor it sends to
fan_out_first_only(n, rest, src, message) ==
    IF rest = <<>> THEN [node |-> n, out |-> <<>>, ids |-> <<>>]
    ELSE IF Head(rest) # src
    THEN LET g == gen_msg_id(n)
             r == reply(g.node, Head(rest), Broadcast(g.id, message))
         IN  [node |-> g.node, out |-> <<r>>, ids |-> <<g.id>>]
    ELSE fan_out(n, Tail(rest), src, message)

\* the loop without the test that leaves the sender out
fan_out_to_sender_too(n, rest, src, message) ==
    IF rest = <<>> THEN [node |-> n, out |-> <<>>, ids |-> <<>>]
    ELSE LET g == gen_msg_id(n)
             r == reply(g.node, Head(rest), Broadcast(g.id, message))
             t == fan_out(g.node, Tail(rest), src, message)
         IN  [node |-> t.node, out |-> <<r>> \o t.out, ids |-> <<g.id>> \o t.ids]

fan_out(n, rest, src, message) ==
    IF rest = <<>> THEN [node |-> n, out |-> <<>>, ids |-> <<>>]
    ELSE IF Head(rest) # src
    THEN LET g == gen_msg_id(n)
             r == reply(g.node, Head(rest), Broadcast(g.id, message))
             t == fan_out(g.node, Tail(rest), src, message)
         IN  [node |-> t.node, out |-> <<r>> \o t.out, ids |-> <<g.id>> \o t.ids]
    ELSE fan_out(n, Tail(rest), src, message)

\* the elements of a Vec
Range(f) == {f[i] : i \in DOMAIN f}

\* Vec::contains
Contains(list, x) == \E i \in 1 .. Len(list) : list[i] = x

\* broadcast_message pushing without the contains test
broadcast_message_always_push(n, src, message) ==
    LET n1 == push_broadcast_message(n, message)
    IN  fan_out(n1, neighbors(n1), src, message)

\* broadcast_message with the contains test guarding the push alone
broadcast_message_always_forward(n, src, message) ==
    LET n1 == IF ~Contains(broadcast_messages(n), message)
              THEN push_broadcast_message(n, message)
              ELSE n
    IN  fan_out(n1, neighbors(n1), src, message)

broadcast_message(n, src, message) ==
    IF ~Contains(broadcast_messages(n), message)
    THEN LET n1 == push_broadcast_message(n, message)
         IN  fan_out(n1, neighbors(n1), src, message)
    ELSE [node |-> n, out |-> <<>>, ids |-> <<>>]

\* handler_broadcast answering before it forwards
handler_broadcast_ok_first(n, m) ==
    IF m.body.type = "broadcast"
    THEN LET g == gen_msg_id(n)
             body == broadcast_ok(m.body.msg_id, g.id)
             b == broadcast_message(g.node, m.src, m.body.message)
         IN  Ok(b.node, <<reply(b.node, m.src, body)>> \o b.out, <<g.id>> \o b.ids)
    ELSE Err(n, ExpectedMessage(unwrap_or(key(m.body), "Invalid"), "Broadcast"), <<>>)

handler_broadcast(n, m) ==
    IF m.body.type = "broadcast"
    THEN LET b == broadcast_message(n, m.src, m.body.message)
             g == gen_msg_id(b.node)
             body == broadcast_ok(m.body.msg_id, g.id)
         IN  Ok(g.node, Append(b.out, reply(g.node, m.src, body)), Append(b.ids, g.id))
    ELSE Err(n, ExpectedMessage(unwrap_or(key(m.body), "Invalid"), "Broadcast"), <<>>)

handler_read(n, m) ==
    IF m.body.type = "read"
    THEN LET g == gen_msg_id(n)
             body == read_ok(m.body.msg_id, g.id, broadcast_messages(g.node))
         IN  Ok(g.node, <<reply(g.node, m.src, body)>>, <<g.id>>)
    ELSE Err(n, ExpectedMessage(unwrap_or(key(m.body), "Invalid"), "Read"), <<>>)

\* topology.remove(&node_id).unwrap_or(Vec::new())
OwnRow(topology, id) == IF id \in DOMAIN topology THEN topology[id] ELSE <<>>

\* handler_topology sending the latest seen value to the neighbors of the new row
handler_topology_refloods(n, m) ==
    IF m.body.type = "topology"
    THEN LET n1 == set_neighbors(n, OwnRow(m.body.topology, node_id(n)))
             seen == broadcast_messages(n1)
             f == IF seen = <<>>
                  THEN [node |-> n1, out |-> <<>>, ids |-> <<>>]
                  ELSE fan_out(n1, neighbors(n1), m.src, seen[Len(seen)])
             g == gen_msg_id(f.node)
             body == topology_ok(m.body.msg_id, g.id)
         IN  Ok(g.node, Append(f.out, reply(g.node, m.src, body)), Append(f.ids, g.id))
    ELSE Err(n, ExpectedMessage(unwrap_or(key(m.body), "Invalid"), "Topology"), <<>>)

\* handler_topology leaving the neighbors alone when the map has no own row
handler_topology_keeps_old(n, m) ==
    IF m.body.type = "topology"
    THEN LET n1 == IF node_id(n) \in DOMAIN m.body.topology
                   THEN set_neighbors(n, m.body.topology[node_id(n)])
                   ELSE n
             g == gen_msg_id(n1)
             body == topology_ok(m.body.msg_id, g.id)
         IN  Ok(g.node, <<reply(g.node, m.src, body)>>, <<g.id>>)
    ELSE Err(n, ExpectedMessage(unwrap_or(key(m.body), "Invalid"), "Topology"), <<>>)

handler_topology(n, m) ==
    IF m.body.type = "topology"
    THEN LET n1 == set_neighbors(n, OwnRow(m.body.topology, node_id(n)))
             g == gen_msg_id(n1)
             body == topology_ok(m.body.msg_id, g.id)
         IN  Ok(g.node, <<reply(g.node, m.src, body)>>, <<g.id>>)
    ELSE Err(n, ExpectedMessage(unwrap_or(key(m.body), "Invalid"), "Topology"), <<>>)

broadcast_create_node ==
    NodeNew(("Broadcast" :> "handler_broadcast")
            @@ ("Read" :> "handler_read")
            @@ ("Topology" :> "handler_topology"))

-----------------------------------------------------------------------------
(* Node::process *)

\* the call handler(self, message) through the function pointer in the registry
CallHandler(h, n, m, now) ==
    CASE h = "handler_init" -> handler_init(n, m)
      [] h = "handler_echo" -> handler_echo(n, m)
      [] h = "handler_generate" -> handler_generate(n, m, now)
      [] h = "handler_broadcast" -> handler_broadcast(n, m)
      [] h = "handler_read" -> handler_read(n, m)
      [] h = "handler_topology" -> handler_topology(n, m)

\* process with the initialization gate ahead of the tag extraction
process_gate_first(n, m, now) ==
    LET k == key(m.body)
    IN  IF ~is_initialized(n) /\ k # Some("Init") THEN Err(n, NotInitializedYet, <<>>)
        ELSE IF k = None THEN Err(n, KeyNotFound, <<>>)
        ELSE IF k[1] \in DOMAIN n.handlers THEN CallHandler(n.handlers[k[1]], n, m, now)
        ELSE IF is_initialized(n) /\ k[1] = "Init" THEN Err(n, AlreadyInitialized, <<>>)
        ELSE Err(n, HandlerNotFound(k[1]), <<>>)

\* process without the AlreadyInitialized arm of the registry miss
process_miss_is_handler_not_found(n, m, now) ==
    LET k == key(m.body)
    IN  IF k = None THEN Err(n, KeyNotFound, <<>>)
        ELSE IF ~is_initialized(n) /\ k[1] # "Init" THEN Err(n, NotInitializedYet, <<>>)
        ELSE IF k[1] \in DOMAIN n.handlers THEN CallHandler(n.handlers[k[1]], n, m, now)
        ELSE Err(n, HandlerNotFound(k[1]), <<>>)

\* process drawing a msg id for the reply before it looks the handler up
process_draws_id_first(n, m, now) ==
    LET k == key(m.body)
    IN  IF k = None THEN Err(n, KeyNotFound, <<>>)
        ELSE IF ~is_initialized(n) /\ k[1] # "Init" THEN Err(n, NotInitializedYet, <<>>)
        ELSE IF k[1] \in DOMAIN n.handlers THEN CallHandler(n.handlers[k[1]], n, m, now)
        ELSE IF is_initialized(n) /\ k[1] = "Init"
        THEN Err(gen_msg_id(n).node, AlreadyInitialized, <<>>)
        ELSE Err(gen_msg_id(n).node, HandlerNotFound(k[1]), <<>>)

\* process without the initialization gate
process_no_gate(n, m, now) ==
    LET k == key(m.body)
    IN  IF k = None THEN Err(n, KeyNotFound, <<>>)
        ELSE IF k[1] \in DOMAIN n.handlers THEN CallHandler(n.handlers[k[1]], n, m, now)
        ELSE IF is_initialized(n) /\ k[1] = "Init" THEN Err(n, AlreadyInitialized, <<>>)
        ELSE Err(n, HandlerNotFound(k[1]), <<>>)

process(n, m, now) ==
    LET k == key(m.body)
    IN  IF k = None THEN Err(n, KeyNotFound, <<>>)
        ELSE IF ~is_initialized(n) /\ k[1] # "Init" THEN Err(n, NotInitializedYet, <<>>)
        ELSE IF k[1] \in DOMAIN n.handlers THEN CallHandler(n.handlers[k[1]], n, m, now)
        ELSE IF is_initialized(n) /\ k[1] = "Init" THEN Err(n, AlreadyInitialized, <<>>)
        ELSE Err(n, HandlerNotFound(k[1]), <<>>)

-----------------------------------------------------------------------------
(* Inputs *)

\* senders of inbound messages, each with the msg_id it puts in its requests:
\* a client and a peer node
Senders == {[src |-> C1, msg_id |-> 1], [src |-> N2, msg_id |-> 7]}

\* node_id and node_ids carried by Init
Identities == {[node_id |-> N1, node_ids |-> <<N1, N2, N3>>],
               [node_id |-> EmptyString, node_ids |-> <<>>]}

EchoTexts == {Hello, EmptyString}

\* broadcast values
Values == {10, 1000}

\* topology maps: a row for n1, no row for n1, a row for n1 that repeats a
\* neighbor
Topologies ==
    { (N1 :> <<N2, N3>>) @@ (N2 :> <<N1>>) @@ (N3 :> <<N1>>),
      (N2 :> <<N1, N3>>) @@ (N3 :> <<N2>>),
      (N1 :> <<N2, N2, C1>>) }

\* clock readings (ms since the Unix epoch, as u64 bit sets): a base value, one
\* millisecond later, 2^33 ms later and 2^34 ms later
Epochs == { {40, 38, 5}, {40, 38, 5, 0}, {40, 38, 33, 5}, {40, 38, 34, 5} }

Msg(src, body) == [src |-> src, dest |-> N1, body |-> body]

InitMsgs ==
    {Msg(s.src, [type |-> "init", msg_id |-> s.msg_id, node_id |-> id.node_id,
                 node_ids |-> id.node_ids]) : s \in Senders, id \in Identities}

EchoMsgs ==
    {Msg(s.src, [type |-> "echo", msg_id |-> s.msg_id, echo |-> e]) :
        s \in Senders, e \in EchoTexts}

GenerateMsgs == {Msg(s.src, [type |-> "generate", msg_id |-> s.msg_id]) : s \in Senders}

BroadcastMsgs == {Msg(s.src, Broadcast(s.msg_id, v)) : s \in Senders, v \in Values}

ReadMsgs == {Msg(s.src, [type |-> "read", msg_id |-> s.msg_id]) : s \in Senders}

TopologyMsgs ==
    {Msg(s.src, [type |-> "topology", msg_id |-> s.msg_id, topology |-> t]) :
        s \in Senders, t \in Topologies}

\* the variants Workload::key has no Type for
ReplyBodies ==
    { init_ok(1), echo_ok(1, 1, Hello), generate_ok(1, 1, <<"7">>), broadcast_ok(1, 1),
      read_ok(1, 1, <<10>>), topology_ok(1, 1),
      [type |-> "error", in_reply_to |-> 1, code |-> 13, text |-> Hello] }

ReplyMsgs == {Msg(C1, b) : b \in ReplyBodies}

RequestTags == {"init", "echo", "generate", "broadcast", "read", "topology"}

\* the ids that the rows of the topology maps name
Peers == UNION {UNION {Range(t[k]) : k \in DOMAIN t} : t \in Topologies}

-----------------------------------------------------------------------------
(* One node fed one message at a time *)

NoMsg == [src |-> EmptyString, dest |-> EmptyString, body |-> [type |-> "none"]]

NoCall(n) ==
    [before |-> n, msg |-> NoMsg, res |-> "None", err |-> NoError, out |-> <<>>, ids |-> <<>>]

NoTopology == [ever_rowless |-> FALSE, latest_rowless |-> FALSE]

\* no iteration of the loop of Runner::start has been made
NoStep == [read |-> "none", res |-> "None", wrote |-> <<>>, logged |-> FALSE]

\* create_node() of each binary; "default" is Node::default()
CreateNode(a) ==
    CASE a = "echo" -> echo_create_node
      [] a = "uniqueids" -> uniqueids_create_node
      [] a = "broadcast" -> broadcast_create_node
      [] a = "default" -> NodeNew([k \in {} |-> "none"])

Apps == {"default", "echo", "uniqueids", "broadcast"}

Init ==
    /\ app \in Apps
    /\ node = CreateNode(app)
    /\ last = NoCall(node)
    /\ issued = <<>>
    /\ arrived = <<>>
    /\ rejected = None
    /\ topo = NoTopology
    /\ panicked = FALSE
    /\ missed = {}
    /\ calls = 0
    /\ kept = None
    /\ cur = None
    /\ peer = node
    /\ peer_cur = None
    /\ nodes = <<>>
    /\ net = {}
    /\ requests = 0
    /\ reads = 0
    /\ forwards = <<>>
    /\ runner = "running"
    /\ stdin_eof = FALSE
    /\ step = NoStep
    /\ spins = 0

\* one call self.node.process(message) of Runner::start, reading the clock as now
Deliver(m, now) ==
    /\ node.msg_counter < MaxMsgId
    /\ LET r == process(node, m, now)
       IN  /\ node' = r.node
           /\ last' = [before |-> node, msg |-> m, res |-> r.res, err |-> r.err,
                       out |-> r.out, ids |-> r.ids]
           /\ issued' = issued \o r.ids
           /\ arrived' = IF r.res = "Ok" /\ m.body.type = "broadcast"
                         THEN Append(arrived, m.body.message)
                         ELSE arrived
           /\ rejected' = IF app = "echo" /\ r.err = NotInitializedYet /\ m.body.type = "echo"
                          THEN Some(m)
                          ELSE rejected
           /\ topo' = IF r.res = "Ok" /\ m.body.type = "topology"
                      THEN LET rowless == node_id(node) \notin DOMAIN m.body.topology
                           IN  [ever_rowless |-> topo.ever_rowless \/ rowless,
                                latest_rowless |-> rowless]
                      ELSE topo
           /\ panicked' = (r.res = "Panic")
           /\ missed' = IF /\ r.res = "Ok"
                           /\ m.body.type = "broadcast"
                           /\ ~Contains(broadcast_messages(node), m.body.message)
                        THEN missed \cup {<<m.body.message, x>> :
                                            x \in Peers \ Range(neighbors(r.node))}
                        ELSE missed
    /\ UNCHANGED <<app, calls, kept, cur, peer, peer_cur,
                   nodes, net, requests, reads, forwards, runnerVars>>

\* the clock is read by handler_generate alone
AnyEpoch == CHOOSE e \in Epochs : TRUE

\* the loop of Runner::start runs while the process has not aborted
RecvInit ==
    /\ ~panicked
    /\ \E m \in InitMsgs : Deliver(m, AnyEpoch)

RecvEcho ==
    /\ ~panicked
    /\ \E m \in EchoMsgs : Deliver(m, AnyEpoch)

RecvGenerate ==
    /\ ~panicked
    /\ \E m \in GenerateMsgs, now \in Epochs : Deliver(m, now)

RecvBroadcast ==
    /\ ~panicked
    /\ Len(arrived) < MaxArrived
    /\ \E m \in BroadcastMsgs : Deliver(m, AnyEpoch)

RecvRead ==
    /\ ~panicked
    /\ \E m \in ReadMsgs : Deliver(m, AnyEpoch)

RecvTopology ==
    /\ ~panicked
    /\ \E m \in TopologyMsgs : Deliver(m, AnyEpoch)

RecvReply ==
    /\ ~panicked
    /\ \E m \in ReplyMsgs : Deliver(m, AnyEpoch)

Next ==
    \/ RecvInit
    \/ RecvEcho
    \/ RecvGenerate
    \/ RecvBroadcast
    \/ RecvRead
    \/ RecvTopology
    \/ RecvReply

Spec == Init /\ [][Next]_vars

-----------------------------------------------------------------------------
(* The unique-id generator of one initialized uniqueids node, called repeatedly *)

UidIdentities == {N1, N257}

InitUid ==
    /\ app = "uniqueids"
    /\ \E id \in UidIdentities : node = init(uniqueids_create_node, id, <<N1, N2, N3>>)
    /\ last = NoCall(node)
    /\ issued = <<>>
    /\ arrived = <<>>
    /\ rejected = None
    /\ topo = NoTopology
    /\ panicked = FALSE
    /\ missed = {}
    /\ calls = 0
    /\ kept = None
    /\ cur = None
    /\ peer = node
    /\ peer_cur = None
    /\ nodes = <<>>
    /\ net = {}
    /\ requests = 0
    /\ reads = 0
    /\ forwards = <<>>
    /\ runner = "running"
    /\ stdin_eof = FALSE
    /\ step = NoStep
    /\ spins = 0

\* one call of gen_unique_id at clock reading now; the call before it may be
\* the one remembered in kept when it is among the first KeepWindow calls
GenerateId ==
    \E now \in Epochs, keep \in BOOLEAN :
        /\ calls < MaxCalls
        /\ LET u == gen_unique_id(node, now)
           IN  /\ u.ok
               /\ node' = u.node
               /\ cur' = Some([n |-> calls + 1, epoch |-> now, id |-> u.id])
        /\ calls' = calls + 1
        /\ kept' = IF keep /\ cur # None /\ calls <= KeepWindow THEN cur ELSE kept
        /\ UNCHANGED <<app, last, issued, arrived, rejected, topo, panicked, missed,
                       peer, peer_cur, nodes, net, requests, reads, forwards,
                       runnerVars>>

NextUid == GenerateId

SpecUid == InitUid /\ [][NextUid]_vars

-----------------------------------------------------------------------------
(* Two initialized uniqueids nodes, each generating ids from its own clock *)

\* the identities of the two nodes: numeric suffixes 1 and 2, and 1 and 257
UidPairs == {<<N1, N2>>, <<N1, N257>>}

InitUidPair ==
    /\ app = "uniqueids"
    /\ \E p \in UidPairs :
            /\ node = init(uniqueids_create_node, p[1], <<p[1], p[2]>>)
            /\ peer = init(uniqueids_create_node, p[2], <<p[1], p[2]>>)
    /\ last = NoCall(node)
    /\ issued = <<>>
    /\ arrived = <<>>
    /\ rejected = None
    /\ topo = NoTopology
    /\ panicked = FALSE
    /\ missed = {}
    /\ calls = 0
    /\ kept = None
    /\ cur = None
    /\ peer_cur = None
    /\ nodes = <<>>
    /\ net = {}
    /\ requests = 0
    /\ reads = 0
    /\ forwards = <<>>
    /\ runner = "running"
    /\ stdin_eof = FALSE
    /\ step = NoStep
    /\ spins = 0

\* one call of gen_unique_id on the first node at clock reading now
GenerateOnNode ==
    \E now \in Epochs :
        /\ node.uid_counter < MaxPairCalls
        /\ LET u == gen_unique_id(node, now)
           IN  /\ u.ok
               /\ node' = u.node
               /\ cur' = Some([n |-> u.node.uid_counter, epoch |-> now, id |-> u.id])
        /\ calls' = calls + 1
        /\ UNCHANGED <<app, last, issued, arrived, rejected, topo, panicked, missed, kept,
                       peer, peer_cur, nodes, net, requests, reads, forwards,
                       runnerVars>>

\* one call of gen_unique_id on the second node at clock reading now
GenerateOnPeer ==
    \E now \in Epochs :
        /\ peer.uid_counter < MaxPairCalls
        /\ LET u == gen_unique_id(peer, now)
           IN  /\ u.ok
               /\ peer' = u.node
               /\ peer_cur' = Some([n |-> u.node.uid_counter, epoch |-> now, id |-> u.id])
        /\ UNCHANGED <<app, node, last, issued, arrived, rejected, topo, panicked, missed,
                       calls, kept, cur, nodes, net, requests, reads, forwards, runnerVars>>

NextUidPair == GenerateOnNode \/ GenerateOnPeer

SpecUidPair == InitUidPair /\ [][NextUidPair]_vars

-----------------------------------------------------------------------------
(* A network of broadcast nodes: one process per node id, the stdout of each *)
(* routed to the stdin of the node a message is addressed to                  *)

NetIds == {N1, N2, N3}

\* the topology maps of the network: a line, a triangle, a one-way ring, and
\* a map whose row for n1 repeats n2 and which leaves n3 alone
NetTopologies ==
    { (N1 :> <<N2>>) @@ (N2 :> <<N1, N3>>) @@ (N3 :> <<N2>>),
      (N1 :> <<N2, N3>>) @@ (N2 :> <<N1, N3>>) @@ (N3 :> <<N1, N2>>),
      (N1 :> <<N2>>) @@ (N2 :> <<N3>>) @@ (N3 :> <<N1>>),
      (N1 :> <<N2, N2>>) @@ (N2 :> <<N1>>) @@ (N3 :> <<>>) }

\* the node of process id once it has read an Init and a Topology from the client
NodeAfterSetup(id, t) ==
    LET i == process(broadcast_create_node,
                     [src |-> C1, dest |-> id,
                      body |-> [type |-> "init", msg_id |-> 1, node_id |-> id,
                                node_ids |-> <<N1, N2, N3>>]],
                     AnyEpoch)
        r == process(i.node,
                     [src |-> C1, dest |-> id,
                      body |-> [type |-> "topology", msg_id |-> 2, topology |-> t]],
                     AnyEpoch)
    IN  r.node

InitNet ==
    /\ app = "broadcast"
    /\ node = broadcast_create_node
    /\ last = NoCall(node)
    /\ issued = <<>>
    /\ arrived = <<>>
    /\ rejected = None
    /\ topo = NoTopology
    /\ panicked = FALSE
    /\ missed = {}
    /\ calls = 0
    /\ kept = None
    /\ cur = None
    /\ peer = node
    /\ peer_cur = None
    /\ \E t \in NetTopologies : nodes = [id \in NetIds |-> NodeAfterSetup(id, t)]
    /\ net = {}
    /\ requests = 0
    /\ reads = 0
    /\ forwards = [k \in NetIds \X NetIds \X Values |-> 0]
    /\ runner = "running"
    /\ stdin_eof = FALSE
    /\ step = NoStep
    /\ spins = 0

\* how many Broadcast messages of a returned list go from src to dest with value v
Copies(out, k) ==
    Cardinality({i \in 1 .. Len(out) : /\ out[i].body.type = "broadcast"
                                       /\ <<out[i].src, out[i].dest, out[i].body.message>> = k})

\* the node m is addressed to reads m and processes it; what it writes for a
\* node of the network goes to the network, the rest goes to the client
Receive(m) ==
    LET r == process(nodes[m.dest], m, AnyEpoch)
    IN  /\ nodes' = [nodes EXCEPT ![m.dest] = r.node]
        /\ net' = (net \ {m}) \cup {r.out[i] : i \in {j \in 1 .. Len(r.out) :
                                                         r.out[j].dest \in NetIds}}
        /\ last' = [before |-> nodes[m.dest], msg |-> m, res |-> r.res, err |-> r.err,
                    out |-> r.out, ids |-> r.ids]
        /\ forwards' = [k \in DOMAIN forwards |-> forwards[k] + Copies(r.out, k)]

\* the network holds no message
Drained == net = {}

\* the client, once the network has drained, sends a Broadcast of v to node
\* id, which processes it
ClientBroadcast ==
    \E id \in NetIds, v \in Values :
        /\ requests < MaxRequests
        /\ Drained
        /\ Receive([src |-> C1, dest |-> id, body |-> Broadcast(requests + 1, v)])
        /\ requests' = requests + 1
        /\ UNCHANGED <<app, node, issued, arrived, rejected, topo, panicked, missed, calls,
                       kept, cur, peer, peer_cur, reads, runnerVars>>

\* the client, once it has made its Broadcast requests and the network has
\* drained, sends a Read to node id, which processes it
ClientRead ==
    \E id \in NetIds :
        /\ reads < MaxReads
        /\ requests = MaxRequests
        /\ Drained
        /\ Receive([src |-> C1, dest |-> id,
                    body |-> [type |-> "read", msg_id |-> MaxRequests + reads + 1]])
        /\ reads' = reads + 1
        /\ UNCHANGED <<app, node, issued, arrived, rejected, topo, panicked, missed, calls,
                       kept, cur, peer, peer_cur, requests, runnerVars>>

\* a node reads one of the messages that another node has written for it
DeliverNet ==
    \E m \in net :
        /\ Receive(m)
        /\ UNCHANGED <<app, node, issued, arrived, rejected, topo, panicked, missed, calls,
                       kept, cur, peer, peer_cur, requests, reads, runnerVars>>

NextNet == ClientBroadcast \/ ClientRead \/ DeliverNet

\* every message written is read: stdin delivers what the network holds
SpecNet == InitNet /\ [][NextNet]_vars /\ WF_vars(DeliverNet)

-----------------------------------------------------------------------------
(* node/src/lib.rs: Runner::start on its stdin and stdout *)

\* what stdin.read_line(&mut buffer) gives: Err, or Ok with the buffer holding
\* a line that decodes to a Message, a line that does not, or nothing (Ok(0),
\* end of input)
ReadErr == [res |-> "Err", buffer |-> [text |-> "empty"]]
ReadEnd == [res |-> "Ok", buffer |-> [text |-> "empty"]]
ReadJunk == [res |-> "Ok", buffer |-> [text |-> "junk"]]
ReadMsg(m) == [res |-> "Ok", buffer |-> [text |-> "json", msg |-> m]]

\* serde_json::from_str::<Message>(buffer.trim_end()): Ok(Message) as <<m>>,
\* Err as <<>>; the empty buffer is not a Message
from_str(buffer) == IF buffer.text = "json" THEN Some(buffer.msg) ELSE None

\* one evaluation of the loop condition and, when it holds, of the loop body
\* that also leaves the loop when read_line gives Ok(0)
start_step_until_eof(n, rd, stdout_ok) ==
    IF rd.res = "Err" \/ rd.buffer.text = "empty"
    THEN [node |-> n, runner |-> "returned", res |-> "None", wrote |-> <<>>, logged |-> FALSE]
    ELSE LET d == from_str(rd.buffer)
         IN  IF d = None
             THEN [node |-> n, runner |-> "running", res |-> "Decode", wrote |-> <<>>,
                   logged |-> TRUE]
             ELSE LET r == process(n, d[1], AnyEpoch)
                  IN  CASE r.res = "Panic" ->
                             [node |-> r.node, runner |-> "aborted", res |-> "Panic",
                              wrote |-> <<>>, logged |-> FALSE]
                        [] r.res = "Err" ->
                             [node |-> r.node, runner |-> "running", res |-> "Err",
                              wrote |-> <<>>, logged |-> TRUE]
                        [] r.res = "Ok" /\ r.out # <<>> /\ ~stdout_ok ->
                             [node |-> r.node, runner |-> "aborted", res |-> "Ok",
                              wrote |-> <<>>, logged |-> FALSE]
                        [] OTHER ->
                             [node |-> r.node, runner |-> "running", res |-> "Ok",
                              wrote |-> r.out, logged |-> FALSE]

\* one evaluation of the loop condition of Runner::start and, when it holds,
\* of the loop body: the node after it, where the runner is, the messages
\* written to stdout and whether eprintln! ran. stdout_ok = FALSE is a stdout
\* that refuses the write: expect() in Runner::write panics on the first message.
start_step(n, rd, stdout_ok) ==
    IF rd.res = "Err"
    THEN [node |-> n, runner |-> "returned", res |-> "None", wrote |-> <<>>, logged |-> FALSE]
    ELSE LET d == from_str(rd.buffer)
         IN  IF d = None
             THEN [node |-> n, runner |-> "running", res |-> "Decode", wrote |-> <<>>,
                   logged |-> TRUE]
             ELSE LET r == process(n, d[1], AnyEpoch)
                  IN  CASE r.res = "Panic" ->
                             [node |-> r.node, runner |-> "aborted", res |-> "Panic",
                              wrote |-> <<>>, logged |-> FALSE]
                        [] r.res = "Err" ->
                             [node |-> r.node, runner |-> "running", res |-> "Err",
                              wrote |-> <<>>, logged |-> TRUE]
                        [] r.res = "Ok" /\ r.out # <<>> /\ ~stdout_ok ->
                             [node |-> r.node, runner |-> "aborted", res |-> "Ok",
                              wrote |-> <<>>, logged |-> FALSE]
                        [] OTHER ->
                             [node |-> r.node, runner |-> "running", res |-> "Ok",
                              wrote |-> r.out, logged |-> FALSE]

\* the binaries run by the transport specification
RunnerApps == {"echo", "uniqueids"}

InitRunner ==
    /\ app \in RunnerApps
    /\ node = CreateNode(app)
    /\ last = NoCall(node)
    /\ issued = <<>>
    /\ arrived = <<>>
    /\ rejected = None
    /\ topo = NoTopology
    /\ panicked = FALSE
    /\ missed = {}
    /\ calls = 0
    /\ kept = None
    /\ cur = None
    /\ peer = node
    /\ peer_cur = None
    /\ nodes = <<>>
    /\ net = {}
    /\ requests = 0
    /\ reads = 0
    /\ forwards = <<>>
    /\ runner = "running"
    /\ stdin_eof = FALSE
    /\ step = NoStep
    /\ spins = 0

\* the loop of Runner::start goes round once on what read_line gives
Iterate(kind, rd, stdout_ok) ==
    /\ runner = "running"
    /\ LET t == start_step(node, rd, stdout_ok)
       IN  /\ node' = t.node
           /\ runner' = t.runner
           /\ step' = [read |-> kind, res |-> t.res, wrote |-> t.wrote, logged |-> t.logged]
    /\ UNCHANGED <<app, last, issued, arrived, rejected, topo, panicked, missed, calls, kept,
                   cur, peer, peer_cur, nodes, net, requests, reads, forwards>>

\* read_line gives a line that decodes to a Message
ReadMessage ==
    \E m \in InitMsgs \cup EchoMsgs \cup GenerateMsgs \cup ReplyMsgs, stdout_ok \in BOOLEAN :
        /\ ~stdin_eof
        /\ node.msg_counter < MaxMsgId
        /\ Iterate("line", ReadMsg(m), stdout_ok)
        /\ UNCHANGED <<stdin_eof, spins>>

\* read_line gives a line that does not decode
ReadGarbage ==
    /\ ~stdin_eof
    /\ Iterate("junk", ReadJunk, TRUE)
    /\ UNCHANGED <<stdin_eof, spins>>

\* read_line gives Ok(0): stdin is at end of input, and stays there
ReadEof ==
    /\ spins < MaxSpins
    /\ Iterate("eof", ReadEnd, TRUE)
    /\ stdin_eof' = TRUE
    /\ spins' = spins + 1

\* read_line gives Err
ReadError ==
    /\ ~stdin_eof
    /\ Iterate("error", ReadErr, TRUE)
    /\ UNCHANGED <<stdin_eof, spins>>

NextRunner == ReadMessage \/ ReadGarbage \/ ReadEof \/ ReadError

SpecRunner == InitRunner /\ [][NextRunner]_vars

-----------------------------------------------------------------------------
(* Properties of Spec *)

\* a process() call has been made
Called == last.res # "None"

\* the fan-out part of the messages a Broadcast call returned: all but the last
FanOut(out) == SubSeq(out, 1, Len(out) - 1)

\* the distinct values of a sequence, in order of first occurrence
RECURSIVE FirstSeen(_, _)
FirstSeen(vs, acc) ==
    IF vs = <<>> THEN acc
    ELSE FirstSeen(Tail(vs), IF Head(vs) \in Range(acc) THEN acc ELSE Append(acc, Head(vs)))

NoRepeats(list) == \A i, j \in 1 .. Len(list) : i # j => list[i] # list[j]

\* C1: on a node that has not processed a successful Init, process of any
\* message with a request tag other than Init returns NotInitializedYet,
\* returns no message, hands out no msg id and leaves every field of the node
\* as it was, whether or not a handler is registered for the tag.
C1_NotInitializedGate ==
    (Called /\ ~is_initialized(last.before)
            /\ last.msg.body.type \in RequestTags \ {"init"})
    => /\ last.res = "Err"
       /\ last.err = NotInitializedYet
       /\ last.out = <<>>
       /\ last.ids = <<>>
       /\ node = last.before

\* an Echo refused by the fresh echo node, which has a handler for it
C1_Witness ==
    /\ app = "echo"
    /\ last.msg.body.type = "echo"
    /\ "Echo" \in DOMAIN last.before.handlers
    /\ last.err = NotInitializedYet
    /\ node = echo_create_node

\* C2: once the node is initialized, every Init (same or different node_id and
\* node_ids) fails with AlreadyInitialized, and no call changes the identity
\* or the peer list.
C2_InitOnce ==
    (Called /\ is_initialized(last.before))
    => /\ node.node_id = last.before.node_id
       /\ node.node_ids = last.before.node_ids
       /\ last.msg.body.type = "init"
          => /\ last.res = "Err"
             /\ last.err = AlreadyInitialized
             /\ last.out = <<>>

\* a second Init carrying another identity and peer list, refused
C2_Witness ==
    /\ is_initialized(last.before)
    /\ last.msg.body.type = "init"
    /\ last.msg.body.node_id # node_id(node)
    /\ Some(last.msg.body.node_ids) # node.node_ids
    /\ last.err = AlreadyInitialized

\* C3: Init on a fresh node succeeds and returns exactly one message, an
\* InitOk with in_reply_to the Init's msg_id, addressed to the Init's sender,
\* from the node_id the Init carries; the node then has that identity and
\* those peers, and no Init handler.
C3_InitReply ==
    (Called /\ ~is_initialized(last.before) /\ last.msg.body.type = "init")
    => /\ last.res = "Ok"
       /\ last.out = << [src |-> last.msg.body.node_id,
                         dest |-> last.msg.src,
                         body |-> [type |-> "init_ok",
                                   in_reply_to |-> last.msg.body.msg_id]] >>
       /\ node.node_id = Some(last.msg.body.node_id)
       /\ node.node_ids = Some(last.msg.body.node_ids)
       /\ "Init" \notin DOMAIN node.handlers
       /\ is_initialized(node)

\* an Init from the peer n2 answered on a fresh node
C3_Witness ==
    /\ ~is_initialized(last.before)
    /\ last.msg.body.type = "init"
    /\ last.msg.src = N2
    /\ last.res = "Ok"
    /\ node_id(node) = N1

\* C4: the seen values are the distinct values of the Broadcasts processed so
\* far, each once, in order of first arrival, and a Read returns exactly that
\* list; Reads and Topologies in between change nothing of it.
C4_ReadFirstSeen ==
    /\ broadcast_messages(node) = FirstSeen(arrived, <<>>)
    /\ NoRepeats(broadcast_messages(node))
    /\ (last.msg.body.type = "read" /\ last.res = "Ok")
       => /\ Len(last.out) = 1
          /\ last.out[1].body.type = "read_ok"
          /\ last.out[1].body.messages = FirstSeen(arrived, <<>>)
          /\ last.out[1].body.in_reply_to = last.msg.body.msg_id
          /\ last.out[1].dest = last.msg.src

\* a Read after the values 1000, 10, 1000 arrived and a Topology was processed
C4_Witness ==
    /\ arrived = <<1000, 10, 1000>>
    /\ neighbors(node) # <<>>
    /\ last.msg.body.type = "read"
    /\ last.res = "Ok"
    /\ last.out[1].body.messages = <<1000, 10>>

\* C5: a Broadcast whose value the initialized node has already seen returns
\* no fan-out message and leaves the seen values alone, whatever the
\* neighbors and the sender; the BroadcastOk to the sender is still returned.
C5_SeenValueNoFanOut ==
    (Called /\ is_initialized(last.before)
            /\ last.msg.body.type = "broadcast"
            /\ "Broadcast" \in DOMAIN last.before.handlers
            /\ Contains(broadcast_messages(last.before), last.msg.body.message))
    => /\ last.res = "Ok"
       /\ Len(last.out) = 1
       /\ last.out[1].body.type = "broadcast_ok"
       /\ last.out[1].body.in_reply_to = last.msg.body.msg_id
       /\ last.out[1].dest = last.msg.src
       /\ broadcast_messages(node) = broadcast_messages(last.before)
       /\ neighbors(node) = neighbors(last.before)

\* a client re-sends a seen value to a node whose neighbors are n2 and n3
C5_Witness ==
    /\ last.msg.body.type = "broadcast"
    /\ last.msg.src = C1
    /\ Contains(broadcast_messages(last.before), last.msg.body.message)
    /\ neighbors(last.before) = <<N2, N3>>
    /\ last.res = "Ok"
    /\ Len(last.out) = 1

\* a Broadcast with a value the initialized broadcast node has not seen
NewValueBroadcast ==
    /\ Called
    /\ is_initialized(last.before)
    /\ last.msg.body.type = "broadcast"
    /\ "Broadcast" \in DOMAIN last.before.handlers
    /\ ~Contains(broadcast_messages(last.before), last.msg.body.message)

\* every fan-out message is a Broadcast of the inbound value with a msg id
\* not handed out before, and no two of them share a msg id
FanOutWellFormed(fan) ==
    /\ \A i \in 1 .. Len(fan) :
          /\ fan[i].body.type = "broadcast"
          /\ fan[i].body.message = last.msg.body.message
          /\ fan[i].body.msg_id > last.before.msg_counter
          /\ fan[i].body.msg_id \notin Range(SubSeq(issued, 1, Len(issued) - Len(last.ids)))
    /\ \A i, j \in 1 .. Len(fan) : i # j => fan[i].body.msg_id # fan[j].body.msg_id

\* C6 as claimed: for a Broadcast from s with a new value, the fan-out holds
\* exactly one Broadcast for each neighbor in N other than s: none to s, none
\* to a non-neighbor, each non-sender neighbor receiving exactly one copy.
C6_OneCopyPerNeighbor ==
    NewValueBroadcast
    => LET fan == FanOut(last.out)
           targets == Range(neighbors(last.before)) \ {last.msg.src}
       IN  /\ last.res = "Ok"
           /\ FanOutWellFormed(fan)
           /\ \A i \in 1 .. Len(fan) : fan[i].dest \in targets
           /\ \A t \in targets : Cardinality({i \in 1 .. Len(fan) : fan[i].dest = t}) = 1

\* C6 as amended: the fan-out holds exactly one Broadcast for each entry of
\* the list N other than s, in list order, so a neighbor that N lists k times
\* receives k copies; when N repeats no entry each non-sender neighbor
\* receives exactly one copy.
C6_OneCopyPerEntry ==
    NewValueBroadcast
    => LET fan == FanOut(last.out)
           NotSender(x) == x # last.msg.src
           entries == SelectSeq(neighbors(last.before), NotSender)
       IN  /\ last.res = "Ok"
           /\ FanOutWellFormed(fan)
           /\ [i \in 1 .. Len(fan) |-> fan[i].dest] = entries
           /\ NoRepeats(neighbors(last.before))
              => \A t \in Range(neighbors(last.before)) \ {last.msg.src} :
                    Cardinality({i \in 1 .. Len(fan) : fan[i].dest = t}) = 1

\* the neighbor n2 sends a new value to a node whose neighbors are n2 and n3
C6_Witness ==
    /\ NewValueBroadcast
    /\ last.msg.src = N2
    /\ neighbors(last.before) = <<N2, N3>>
    /\ Len(last.out) = 2
    /\ last.out[1].dest = N3

\* C7: every msg id gen_msg_id hands out is greater than every one handed
\* out before it, so none is handed out twice.
C7_MsgIdsIncrease ==
    \A i, j \in 1 .. Len(issued) : i < j => issued[i] < issued[j]

\* ids handed out over several calls, three of them during one Broadcast
C7_Witness ==
    /\ Len(issued) >= 5
    /\ Len(last.ids) = 3

\* a Topology processed by the initialized broadcast node sets the neighbors
\* to the own row of the map, or to the empty list without one, and returns a
\* single TopologyOk to the sender
TopologySetsOwnRow ==
    (Called /\ is_initialized(last.before)
            /\ last.msg.body.type = "topology"
            /\ "Topology" \in DOMAIN last.before.handlers)
    => LET own == node_id(last.before)
           map == last.msg.body.topology
       IN  /\ last.res = "Ok"
           /\ neighbors(node) = IF own \in DOMAIN map THEN map[own] ELSE <<>>
           /\ Len(last.out) = 1
           /\ last.out[1].body.type = "topology_ok"
           /\ last.out[1].body.in_reply_to = last.msg.body.msg_id
           /\ last.out[1].dest = last.msg.src

BroadcastAnswered == last.msg.body.type = "broadcast" /\ last.res = "Ok"

OnlyBroadcastOk == Len(last.out) = 1 /\ last.out[1].body.type = "broadcast_ok"

\* C8 as claimed: a Topology sets the neighbors to the own row or to the
\* empty list, and once a Topology without an own row has been processed
\* every later Broadcast returns only the BroadcastOk.
C8_RowlessSilencesForever ==
    /\ TopologySetsOwnRow
    /\ (topo.ever_rowless /\ BroadcastAnswered) => OnlyBroadcastOk

\* C8 as amended: a Topology sets the neighbors to the own row or to the
\* empty list, and while the latest Topology processed is one without an own
\* row every Broadcast returns only the BroadcastOk.
C8_RowlessSilencesUntilNextTopology ==
    /\ TopologySetsOwnRow
    /\ topo.latest_rowless => neighbors(node) = <<>>
    /\ (topo.latest_rowless /\ BroadcastAnswered) => OnlyBroadcastOk

\* the latest Topology had no row for the node, and a new value, the second
\* or a later one to arrive, then produces the BroadcastOk alone
C8_Witness ==
    /\ topo.latest_rowless
    /\ NewValueBroadcast
    /\ Len(arrived) >= 2
    /\ OnlyBroadcastOk

\* C9: on the initialized echo node an Echo succeeds with one EchoOk that
\* carries the inbound echo, in_reply_to the inbound msg_id, a newly
\* generated msg_id, the inbound source as destination and the node's
\* identity as source.
C9_EchoAfterInit ==
    (Called /\ app = "echo" /\ is_initialized(last.before) /\ last.msg.body.type = "echo")
    => /\ last.res = "Ok"
       /\ last.ids = <<last.before.msg_counter + 1>>
       /\ last.out = << [src |-> node_id(node),
                         dest |-> last.msg.src,
                         body |-> [type |-> "echo_ok",
                                   in_reply_to |-> last.msg.body.msg_id,
                                   msg_id |-> last.ids[1],
                                   echo |-> last.msg.body.echo]] >>
       /\ node.node_id = last.before.node_id

\* the Echo that was refused before initialization is answered after it
C9_Witness ==
    /\ rejected = Some(last.msg)
    /\ last.msg.body.echo = Hello
    /\ last.res = "Ok"
    /\ last.out[1].body.echo = Hello
    /\ node_id(node) = N1

\* C13: a message whose body is one of the seven reply-only variants fails in
\* process with KeyNotFound on an uninitialized node as on an initialized one
\* (never NotInitializedYet), returns no message, hands out no msg id and
\* leaves every field of the node as it was.
C13_ReplyBodyKeyNotFound ==
    (Called /\ last.msg.body.type \notin RequestTags)
    => /\ last.res = "Err"
       /\ last.err = KeyNotFound
       /\ last.out = <<>>
       /\ last.ids = <<>>
       /\ node = last.before

\* an Error body refused with KeyNotFound by a node that was never initialized
C13_Witness ==
    /\ ~is_initialized(last.before)
    /\ last.msg.body.type = "error"
    /\ last.err = KeyNotFound
    /\ node = last.before

\* C14: on an initialized node a request tag other than Init that has no
\* handler in the registry fails with HandlerNotFound carrying that tag;
\* HandlerNotFound is never the result of an Init on an initialized node nor
\* of a non-Init request on an uninitialized node.
C14_HandlerNotFound ==
    Called
    => /\ (/\ is_initialized(last.before)
           /\ last.msg.body.type \in RequestTags \ {"init"}
           /\ key(last.msg.body)[1] \notin DOMAIN last.before.handlers)
          => /\ last.res = "Err"
             /\ last.err = HandlerNotFound(key(last.msg.body)[1])
       /\ last.err.kind = "HandlerNotFound"
          => /\ ~(is_initialized(last.before) /\ last.msg.body.type = "init")
             /\ ~(~is_initialized(last.before) /\ last.msg.body.type # "init")

\* a Broadcast sent to the initialized echo node
C14_Witness ==
    /\ app = "echo"
    /\ is_initialized(last.before)
    /\ last.msg.body.type = "broadcast"
    /\ last.err = HandlerNotFound("Broadcast")

\* C15: a process call that returns an error returns one of KeyNotFound,
\* NotInitializedYet, AlreadyInitialized, HandlerNotFound, ExpectedMessage,
\* returns no message, hands out no msg id, and leaves identity, peers,
\* neighbors, msg_counter, uid_counter, seen values and registry as they were.
C15_ErrorLeavesNode ==
    (Called /\ last.res = "Err")
    => /\ last.err.kind \in {"KeyNotFound", "NotInitializedYet", "AlreadyInitialized",
                             "HandlerNotFound", "ExpectedMessage"}
       /\ last.out = <<>>
       /\ last.ids = <<>>
       /\ node.node_id = last.before.node_id
       /\ node.node_ids = last.before.node_ids
       /\ node.neighbors = last.before.neighbors
       /\ node.msg_counter = last.before.msg_counter
       /\ node.uid_counter = last.before.uid_counter
       /\ node.broadcast_messages = last.before.broadcast_messages
       /\ node.handlers = last.before.handlers

\* a second Init refused by a broadcast node that has neighbors, seen values
\* and a msg_counter above zero
C15_Witness ==
    /\ last.res = "Err"
    /\ last.err = AlreadyInitialized
    /\ node.msg_counter > 0
    /\ node.neighbors # <<>>
    /\ node.broadcast_messages # <<>>

\* every returned message goes to the inbound sender, or is a Broadcast to a
\* member of the neighbor list
DestinationsKnown ==
    \A i \in 1 .. Len(last.out) :
        IF last.out[i].body.type = "broadcast"
        THEN last.out[i].dest \in Range(neighbors(node))
        ELSE last.out[i].dest = last.msg.src

\* the identity the node holds is the one its Init carried
IdentityFromInit ==
    /\ is_initialized(node)
    /\ IF last.msg.body.type = "init"
       THEN node.node_id = Some(last.msg.body.node_id)
       ELSE node.node_id = last.before.node_id

\* C16 as stated: every message a successful process call returns has the
\* node's identity set by Init as its source, which is never the empty string
\* and never another node's id, and goes to the inbound sender or, for a
\* fan-out Broadcast, to a member of the current neighbor list.
C16_SourceNeverEmpty ==
    (Called /\ last.res = "Ok")
    => /\ IdentityFromInit
       /\ \A i \in 1 .. Len(last.out) :
            /\ last.out[i].src = node.node_id[1]
            /\ last.out[i].src # EmptyString
       /\ DestinationsKnown

\* C16: every message a successful process call returns has as its source the
\* identity the node's Init carried, on a node that is initialized (never the
\* fallback of an uninitialized node, never another id; the empty string only
\* when the Init itself carried the empty node_id), and goes to the inbound
\* sender or, for a fan-out Broadcast, to a member of the current neighbor list.
C16_SourceIsInitIdentity ==
    (Called /\ last.res = "Ok")
    => /\ IdentityFromInit
       /\ \A i \in 1 .. Len(last.out) :
            /\ last.out[i].src = node.node_id[1]
            /\ last.out[i].src = EmptyString => node.node_id = Some(EmptyString)
       /\ DestinationsKnown

\* a Broadcast from a client forwarded by n1 to its neighbors and answered
C16_Witness ==
    /\ last.res = "Ok"
    /\ last.msg.body.type = "broadcast"
    /\ last.msg.src = C1
    /\ Len(last.out) = 3
    /\ node_id(node) = N1
    /\ \A i \in 1 .. 3 : last.out[i].src = N1
    /\ last.out[1].dest = N2
    /\ last.out[3].dest = C1

\* C17: a successfully processed Broadcast returns a list whose last message
\* is a BroadcastOk and whose other messages are all Broadcasts; the
\* BroadcastOk goes to the inbound sender, has in_reply_to the inbound msg_id
\* and a msg_id above the msg_id of every fan-out message of the list.
C17_BroadcastOkLast ==
    (Called /\ last.res = "Ok" /\ last.msg.body.type = "broadcast")
    => /\ Len(last.out) >= 1
       /\ LET ok == last.out[Len(last.out)]
          IN  /\ ok.body.type = "broadcast_ok"
              /\ ok.dest = last.msg.src
              /\ ok.body.in_reply_to = last.msg.body.msg_id
              /\ \A i \in 1 .. Len(last.out) - 1 :
                    /\ last.out[i].body.type = "broadcast"
                    /\ last.out[i].body.msg_id < ok.body.msg_id

\* a Broadcast with two fan-out messages ahead of its BroadcastOk
C17_Witness ==
    /\ last.res = "Ok"
    /\ last.msg.body.type = "broadcast"
    /\ Len(last.out) = 3
    /\ last.out[1].body.type = "broadcast"
    /\ last.out[2].body.type = "broadcast"
    /\ last.out[3].body.type = "broadcast_ok"

\* the msg_ids of the messages of a list that carry one, in order
RECURSIVE MsgIds(_)
MsgIds(out) ==
    IF out = <<>> THEN <<>>
    ELSE IF "msg_id" \in DOMAIN Head(out).body
    THEN <<Head(out).body.msg_id>> \o MsgIds(Tail(out))
    ELSE MsgIds(Tail(out))

\* C18: msg_counter is 0 on the constructed node and advances by one per
\* returned message that carries a msg_id: an Init and a failed call leave it
\* alone, the k-th message with a msg_id that the node returns carries msg_id
\* k, and a Broadcast with f fan-out messages advances it by f + 1.
C18_CounterCountsMessages ==
    /\ ~Called => node.msg_counter = 0
    /\ ~panicked
       => /\ node.msg_counter = Len(issued)
          /\ \A k \in 1 .. Len(issued) : issued[k] = k
          /\ MsgIds(last.out) = last.ids
          /\ node.msg_counter = last.before.msg_counter + Len(MsgIds(last.out))
          /\ (last.msg.body.type = "init" \/ last.res = "Err")
             => node.msg_counter = last.before.msg_counter
          /\ (last.res = "Ok" /\ last.msg.body.type = "broadcast")
             => node.msg_counter = last.before.msg_counter + Len(FanOut(last.out)) + 1

\* a Broadcast with two fan-out messages that takes the counter from 1 to 4
C18_Witness ==
    /\ last.res = "Ok"
    /\ last.msg.body.type = "broadcast"
    /\ Len(FanOut(last.out)) = 2
    /\ last.before.msg_counter = 1
    /\ node.msg_counter = 4
    /\ issued = <<1, 2, 3, 4>>

\* C20: a processed Topology returns the TopologyOk alone, and no call ever
\* returns a Broadcast of a value to an id that was absent from the neighbor
\* list when the node accepted that value: not when a later Topology has added
\* the id, and not when the value is delivered again.
C20_NoReflood ==
    (Called /\ last.res = "Ok")
    => /\ last.msg.body.type = "topology"
          => /\ Len(last.out) = 1
             /\ last.out[1].body.type = "topology_ok"
       /\ \A i \in 1 .. Len(last.out) :
            last.out[i].body.type = "broadcast"
            => <<last.out[i].body.message, last.out[i].dest>> \notin missed

\* a value accepted before any Topology, delivered again once a Topology has
\* made n2 a neighbor: it is answered and not forwarded
C20_Witness ==
    /\ last.res = "Ok"
    /\ last.msg.body.type = "broadcast"
    /\ last.before.neighbors # <<>>
    /\ N2 \in Range(neighbors(node))
    /\ last.msg.src # N2
    /\ <<last.msg.body.message, N2>> \in missed
    /\ Len(last.out) = 1
    /\ last.out[1].body.type = "broadcast_ok"

-----------------------------------------------------------------------------
(* Properties of SpecUid *)

\* C10 as claimed: two gen_unique_id calls of one node return different ids
\* unless they fall in the same millisecond and a multiple of 256 calls apart.
C10_UniqueUnlessSameMsAndWrap ==
    (kept # None /\ cur # None /\ kept[1].n < cur[1].n /\ kept[1].id = cur[1].id)
    => /\ kept[1].epoch = cur[1].epoch
       /\ (cur[1].n - kept[1].n) % 256 = 0

-----------------------------------------------------------------------------
(* Properties of SpecUidPair *)

\* the number after the first character of a node's identity
Suffix(n) == ParseU64(Skip1(node_id(n)))[1]

\* C11 as stated: when the identities of two nodes have distinct numeric
\* suffixes, an id generated by one never equals an id generated by the
\* other, whatever the clock readings and the counters.
C11_DistinctSuffixDistinctIds ==
    (cur # None /\ peer_cur # None /\ Suffix(node) # Suffix(peer))
    => cur[1].id # peer_cur[1].id

\* C11: when the numeric suffixes of the identities of two nodes differ in
\* their low 8 bits (differ modulo 256), an id generated by one never equals
\* an id generated by the other, whatever the clock readings and the counters.
C11_DistinctLowByteDistinctIds ==
    (cur # None /\ peer_cur # None /\ Suffix(node) % 256 # Suffix(peer) % 256)
    => cur[1].id # peer_cur[1].id

\* n1 and n2 generate at the same clock reading with the same counter value
C11_Witness ==
    /\ cur # None
    /\ peer_cur # None
    /\ node_id(node) = N1
    /\ node_id(peer) = N2
    /\ cur[1].epoch = peer_cur[1].epoch
    /\ cur[1].n = peer_cur[1].n
    /\ cur[1].id # peer_cur[1].id

-----------------------------------------------------------------------------
(* Properties of SpecNet *)

\* a Broadcast is on its way from one node to another
BroadcastInFlight == \E m \in net : m.body.type = "broadcast"

\* a Broadcast of a value the receiving node already held made it return no
\* Broadcast
RedeliverySilent ==
    (/\ Called
     /\ last.msg.body.type = "broadcast"
     /\ Contains(broadcast_messages(last.before), last.msg.body.message))
    => \A i \in 1 .. Len(last.out) : last.out[i].body.type # "broadcast"

\* how many entries of the neighbor list of node a name b
Entries(a, b) ==
    Cardinality({i \in 1 .. Len(neighbors(nodes[a])) : neighbors(nodes[a])[i] = b})

\* the neighbor graph a topology map describes
Adj(t, id) == Range(t[id])

RECURSIVE Reach(_, _)
Reach(t, S) ==
    LET T == S \cup UNION {Adj(t, x) : x \in S}
    IN  IF T = S THEN S ELSE Reach(t, T)

Symmetric(t) == \A a, b \in NetIds : b \in Adj(t, a) <=> a \in Adj(t, b)

Connected(t) == \A id \in NetIds : Reach(t, {id}) = NetIds

\* the neighbor lists the nodes hold are the rows of one connected, symmetric
\* topology map
GoodGraph ==
    [id \in NetIds |-> neighbors(nodes[id])]
        \in {t \in NetTopologies : Symmetric(t) /\ Connected(t)}

Holds(id, v) == Contains(broadcast_messages(nodes[id]), v)

\* C12 as stated: for every topology of the network and every run of client
\* Broadcasts, a Broadcast of a value the receiver already holds returns no
\* Broadcast, no node ever sends a value to the same neighbor twice, and from
\* some point on no Broadcast is in flight between nodes.
C12_OncePerNeighbor ==
    /\ [](RedeliverySilent /\ \A k \in DOMAIN forwards : forwards[k] <= 1)
    /\ <>[](~BroadcastInFlight)

\* C12: for every topology of the network and every run of client Broadcasts,
\* a Broadcast of a value the receiver already holds returns no Broadcast, no
\* node ever sends a value to a neighbor more often than its neighbor list
\* names that neighbor, and from some point on no Broadcast is in flight
\* between nodes.
C12_OncePerEntry ==
    /\ [](RedeliverySilent /\ \A k \in DOMAIN forwards : forwards[k] <= Entries(k[1], k[2]))
    /\ <>[](~BroadcastInFlight)

\* in the triangle, a node that holds the value is sent it again by its other
\* neighbor and answers without forwarding; no Broadcast is left in flight
C12_Witness ==
    /\ GoodGraph
    /\ \A id \in NetIds : Len(neighbors(nodes[id])) = 2
    /\ last.msg.body.type = "broadcast"
    /\ last.msg.src \in NetIds
    /\ Contains(broadcast_messages(last.before), last.msg.body.message)
    /\ Len(last.out) = 1
    /\ \E k \in DOMAIN forwards : forwards[k] = 1
    /\ ~BroadcastInFlight

\* a Read returned the values the node holds
ReadReturnsSeen ==
    (Called /\ last.msg.body.type = "read")
    => /\ last.res = "Ok"
       /\ last.out[1].body.messages = broadcast_messages(nodes[last.msg.dest])

\* every value that some node holds is held by every node, when the graph is
\* connected and symmetric
Settled ==
    GoodGraph
    => \A v \in Values : (\E id \in NetIds : Holds(id, v)) => (\A id \in NetIds : Holds(id, v))

\* C19: when every node has stored its row of one connected, symmetric
\* topology before any Broadcast and every message written is delivered, a
\* node that holds a value holds it ever after, every Read returns the values
\* the node holds, and from some point on every value that some node holds (a
\* client has broadcast it) is held by every node.
C19_Convergence ==
    /\ []ReadReturnsSeen
    /\ [][\A id \in NetIds, v \in Values : Holds(id, v) => Holds(id, v)']_vars
    /\ <>[]Settled

\* on the line n1 - n2 - n3 every node holds the value and a Read returns it
C19_Witness ==
    /\ GoodGraph
    /\ neighbors(nodes[N1]) = <<N2>>
    /\ \E v \in Values :
          /\ \A id \in NetIds : Holds(id, v)
          /\ last.msg.body.type = "read"
          /\ last.res = "Ok"
          /\ Contains(last.out[1].body.messages, v)
    /\ Drained

-----------------------------------------------------------------------------
(* Properties of SpecRunner *)

\* an iteration that met a decode failure or a process error wrote nothing to
\* stdout, reported to stderr and left the loop running; Ok(0) from read_line
\* is such an iteration, and once stdin is at end of input the loop is running
\* and can go round again
LoopGoesOn ==
    /\ step.res \in {"Decode", "Err"}
       => /\ step.wrote = <<>>
          /\ step.logged
          /\ runner = "running"
    /\ step.read \in {"eof", "junk"} => step.res = "Decode"
    /\ stdin_eof => runner = "running"
    /\ (stdin_eof /\ spins < MaxSpins) => ENABLED ReadEof

====
